---- MODULE Spec2Model ----
(***************************************************************************)
(* Model of ado_bulk_update.py: a driver loop that searches an Azure       *)
(* DevOps organisation for strings and, for every match, rewrites the      *)
(* file on a work branch and opens or reuses a pull request.               *)
(*                                                                         *)
(* Every remote call of the script is one step of a run.  Runs of the      *)
(* script are numbered; under Spec a run starts only after the previous    *)
(* one has ended (re-running the tool).                                    *)
(***************************************************************************)
EXTENDS Integers, Sequences, FiniteSets, TLC

\* ------------------------------------------------------------------ bounds
\* Longest initial content of the varied file.
MaxLen == 3
\* Number of successive runs of the script.
MaxRuns == 2

Runs == 1..MaxRuns

\* ------------------------------------------------------------ the organisation
Alphabet == {"a", "b"}
NoneProject == "None"
NoneRepos == [isNone |-> TRUE, names |-> <<>>]
SomeRepos(names) == [isNone |-> FALSE, names |-> names]

RepoNames == {"R1", "R2"}
ProjectOf(r) == IF r = "R1" THEN "P1" ELSE "P2"
FilesOf(r) == IF r = "R1" THEN {"F1", "F2"} ELSE {"F1"}
\* The order in which the search service lists its matches.
AllLocations ==
    << [repo |-> "R1", path |-> "F1"],
       [repo |-> "R1", path |-> "F2"],
       [repo |-> "R2", path |-> "F1"] >>

\* ------------------------------------------------------------------ strings
RECURSIVE StrsOfLen(_)
StrsOfLen(n) ==
    IF n = 0 THEN {<<>>}
    ELSE {<<c>> \o s : c \in Alphabet, s \in StrsOfLen(n - 1)}

Strs(n) == UNION {StrsOfLen(k) : k \in 0..n}

\* old_string in item.content
Contains(s, t) ==
    \E i \in 1..(Len(s) - Len(t) + 1) : SubSeq(s, i, i + Len(t) - 1) = t

RECURSIVE ReplaceFrom(_, _, _, _)
ReplaceFrom(s, old, new, i) ==
    IF i > Len(s) - Len(old) + 1 THEN SubSeq(s, i, Len(s))
    ELSE IF SubSeq(s, i, i + Len(old) - 1) = old
         THEN new \o ReplaceFrom(s, old, new, i + Len(old))
         ELSE <<s[i]>> \o ReplaceFrom(s, old, new, i + 1)

RECURSIVE Interleave(_, _, _)
Interleave(s, new, i) ==
    IF i > Len(s) THEN new
    ELSE new \o <<s[i]>> \o Interleave(s, new, i + 1)

\* A plausible slip: only the first occurrence is replaced (replace(old, new, 1)).
RECURSIVE ReplaceFirstFrom(_, _, _, _)
ReplaceFirstFrom(s, old, new, i) ==
    IF i > Len(s) - Len(old) + 1 THEN SubSeq(s, i, Len(s))
    ELSE IF SubSeq(s, i, i + Len(old) - 1) = old
         THEN new \o SubSeq(s, i + Len(old), Len(s))
         ELSE <<s[i]>> \o ReplaceFirstFrom(s, old, new, i + 1)

StrReplaceFirstOnly(s, old, new) == ReplaceFirstFrom(s, old, new, 1)

\* item.content.replace(old_string, new_string)
StrReplace(s, old, new) ==
    IF old = <<>> THEN Interleave(s, new, 1) ELSE ReplaceFrom(s, old, new, 1)

\* ------------------------------------------------------------ configurations
Rule(old, new) == [old |-> old, new |-> new]

\* strings_to_replace: the rule lists the runs are checked with.
RuleLists ==
    { << Rule(<<"a">>, <<"b">>) >>,
      << Rule(<<"a">>, <<"a", "a">>) >>,
      << Rule(<<"a", "a">>, <<"b">>) >>,
      << Rule(<<"a", "b">>, <<>>) >>,
      << Rule(<<"a">>, <<"b">>), Rule(<<"b">>, <<"a">>) >>,
      << Rule(<<"b", "b">>, <<"a">>), Rule(<<"a">>, <<"b", "a">>) >>,
      << Rule(<<"a", "a">>, <<"a">>), Rule(<<"b">>, <<>>) >>,
      << Rule(<<"b", "a", "b">>, <<"a">>), Rule(<<"a">>, <<"b">>) >> }

Pair(project, repos) == [project |-> project, repos |-> repos]

\* projects_and_repos, as the (project, repos) items in dictionary order.
ScopeLists ==
    { << Pair(NoneProject, NoneRepos) >>,
      << Pair("P1", NoneRepos) >>,
      << Pair("P1", SomeRepos(<<"R1">>)), Pair("P2", NoneRepos) >> }

\* ------------------------------------------------------------------- state
VARIABLES
    \* the settings document
    dry_run, strings_to_replace, projects_and_repos,
    \* whether runs may overlap (FALSE: each run starts after the previous one ended)
    concurrent,
    \* the remote organisation
    srcContent,     \* srcContent[r][f]: file f at the tip of the source branch of r
    work,           \* work[r]: the work branch of r: exists, tip, content
    prs,            \* prs[r]: ids of the active pull requests work branch -> source branch
    nextCommit, nextPrId,
    \* each run's position and local variables
    pc, pi, si, ri, project, repos, results,
    branch_exists, last_commit, item, existing_pr, pr_url, new_content,
    pr_summary, printed,
    \* what was observed of each run
    calls,          \* calls[p]: number of remote calls issued, by kind
    entry,          \* entry[p]: calls[p] when the current workflow invocation began
    searchLog,      \* searchLog[p]: the searches issued: position, text, filters
    invLog,         \* the workflow invocations that returned, in order
    lastPush,       \* the latest create_push
    pushResult,     \* pushResult[p]: what became of the push of the current invocation
    refLog          \* the ref updates issued by update_refs, in order

cfgVars == <<dry_run, strings_to_replace, projects_and_repos, concurrent>>
remoteVars == <<srcContent, work, prs, nextCommit, nextPrId>>
loopVars == <<pc, pi, si, ri, project, repos, results>>
flowVars == <<branch_exists, last_commit, item, existing_pr, pr_url, new_content>>
outVars == <<pr_summary, printed>>
obsVars == <<calls, entry, searchLog, invLog, lastPush, pushResult, refLog>>
vars == <<cfgVars, remoteVars, loopVars, flowVars, outVars, obsVars>>

\* commit_id of the source branch tip (the source branch is never pushed to)
SourceTip == 1
\* "0" * 40, the old object id of a ref creation
ZeroObjectId == 0
\* tip of a work branch left by an earlier session
EarlierTip == SourceTip + 1
\* pr_url before its first assignment
NoUrl == [project |-> "", repo |-> "", id |-> 0]

CallKinds ==
    {"search", "get_branches", "get_branch", "update_refs", "get_item",
     "get_pull_requests", "create_push", "create_pull_request"}
MutatingKinds == CallKinds \ {"search"}
NoCalls == [k \in CallKinds |-> 0]
Called(p, k) == [calls EXCEPT ![p][k] = @ + 1]

NoPush == [run |-> 0, repo |-> "", path |-> "", old_object_id |-> 0, tip |-> 0,
           read |-> <<>>, content |-> <<>>, old |-> <<>>, new |-> <<>>,
           accepted |-> FALSE, base |-> <<>>]

Ended == {"done", "exit1", "crashed"}

\* The work branch of repository R1 as an earlier session may have left it:
\* absent; present with an edited file and no pull request; present with one.
Absent(r) == [exists |-> FALSE, tip |-> 0, content |-> [f \in FilesOf(r) |-> <<>>]]
EarlierStates == {"absent", "edited", "edited_with_pr"}

InitRemote ==
    /\ \E c \in Strs(MaxLen) :
          srcContent = [r \in RepoNames |->
                           IF r = "R1"
                           THEN [f \in FilesOf(r) |-> IF f = "F1" THEN c ELSE <<"a", "b">>]
                           ELSE [f \in FilesOf(r) |-> <<"b", "a", "a">>]]
    /\ \E e \in EarlierStates :
          /\ work = [r \in RepoNames |->
                        IF r = "R1" /\ e # "absent"
                        THEN [exists |-> TRUE, tip |-> EarlierTip,
                              content |-> [srcContent[r] EXCEPT !["F1"] = <<"b">>]]
                        ELSE Absent(r)]
          /\ prs = [r \in RepoNames |->
                        IF r = "R1" /\ e = "edited_with_pr" THEN {1} ELSE {}]
    /\ nextCommit = EarlierTip + 1
    /\ nextPrId = 2

InitRuns ==
    /\ pc = [p \in Runs |-> "idle"]
    /\ pi = [p \in Runs |-> 0]
    /\ si = [p \in Runs |-> 0]
    /\ ri = [p \in Runs |-> 0]
    /\ project = [p \in Runs |-> NoneProject]
    /\ repos = [p \in Runs |-> NoneRepos]
    /\ results = [p \in Runs |-> <<>>]
    /\ branch_exists = [p \in Runs |-> FALSE]
    /\ last_commit = [p \in Runs |-> 0]
    /\ item = [p \in Runs |-> <<>>]
    /\ existing_pr = [p \in Runs |-> {}]
    /\ pr_url = [p \in Runs |-> NoUrl]
    /\ new_content = [p \in Runs |-> <<>>]
    /\ pr_summary = [p \in Runs |-> <<>>]
    /\ printed = [p \in Runs |-> <<>>]
    /\ calls = [p \in Runs |-> NoCalls]
    /\ entry = [p \in Runs |-> NoCalls]
    /\ searchLog = [p \in Runs |-> <<>>]
    /\ invLog = <<>>
    /\ lastPush = NoPush
    /\ pushResult = [p \in Runs |-> "none"]
    /\ refLog = <<>>

Init ==
    /\ dry_run \in BOOLEAN
    /\ strings_to_replace \in RuleLists
    /\ projects_and_repos \in ScopeLists
    /\ concurrent = FALSE
    /\ InitRemote
    /\ InitRuns

\* ------------------------------------------------------------- search_code
\* filters = {} ; if projects: ... ; if repos: ... ; if not filters: filters = None
SearchFilters(proj, rps) ==
    [project |-> IF proj = NoneProject THEN <<>> ELSE <<proj>>,
     repository |-> IF rps.isNone THEN <<>> ELSE rps.names]

InSeq(x, s) == \E i \in 1..Len(s) : s[i] = x

\* The search service: the files of the source branch that contain the text,
\* within the filters (an empty filter does not restrict).
Matches(text, filters, loc) ==
    /\ Contains(srcContent[loc.repo][loc.path], text)
    /\ filters.project = <<>> \/ InSeq(ProjectOf(loc.repo), filters.project)
    /\ filters.repository = <<>> \/ InSeq(loc.repo, filters.repository)

RECURSIVE SelectLocations(_, _, _)
SelectLocations(text, filters, i) ==
    IF i > Len(AllLocations) THEN <<>>
    ELSE (IF Matches(text, filters, AllLocations[i]) THEN <<AllLocations[i]>> ELSE <<>>)
         \o SelectLocations(text, filters, i + 1)

FetchCodeSearchResults(text, filters) == SelectLocations(text, filters, 1)

\* ------------------------------------------------------------- driver loop
\* if project is None: project = "all"
LabelProject(proj) == IF proj = NoneProject THEN "all" ELSE proj

\* if repos is None: repos = ["all"]
LabelRepos(rps) == IF rps.isNone THEN SomeRepos(<<"all">>) ELSE rps

\* The loops' next iteration after rule si[p] of pair pi[p] is finished, the
\* loop variables project and repos holding proj and rps.
NextRule(p, proj, rps) ==
    IF si[p] < Len(strings_to_replace)
    THEN /\ pc' = [pc EXCEPT ![p] = "search"]
         /\ si' = [si EXCEPT ![p] = @ + 1]
         /\ pi' = pi
         /\ project' = [project EXCEPT ![p] = proj]
         /\ repos' = [repos EXCEPT ![p] = rps]
    ELSE IF pi[p] < Len(projects_and_repos)
    THEN /\ pc' = [pc EXCEPT ![p] = "search"]
         /\ si' = [si EXCEPT ![p] = 1]
         /\ pi' = [pi EXCEPT ![p] = @ + 1]
         /\ project' = [project EXCEPT ![p] = projects_and_repos[pi[p] + 1].project]
         /\ repos' = [repos EXCEPT ![p] = projects_and_repos[pi[p] + 1].repos]
    ELSE /\ pc' = [pc EXCEPT ![p] = "summary"]
         /\ UNCHANGED <<si, pi>>
         /\ project' = [project EXCEPT ![p] = proj]
         /\ repos' = [repos EXCEPT ![p] = rps]

\* The next iteration of "for result in response.results".
NextResult(p) ==
    IF ri[p] < Len(results[p])
    THEN /\ pc' = [pc EXCEPT ![p] = "match"]
         /\ ri' = [ri EXCEPT ![p] = @ + 1]
         /\ UNCHANGED <<pi, si, project, repos, results>>
    ELSE /\ NextRule(p, project[p], repos[p])
         /\ UNCHANGED <<ri, results>>

\* Whether run p may begin: the first at once; the second at once when runs
\* may overlap (two runs overlap at a time); any other when the runs before it
\* have ended.
MayStart(p) ==
    IF p = 1 THEN TRUE
    ELSE IF concurrent /\ p = 2 THEN TRUE
    ELSE \A q \in 1..(p - 1) : pc[q] \in Ended

\* The script is started: the first (project, repos) pair, the first rule.
StartRun(p) ==
    /\ pc[p] = "idle"
    /\ MayStart(p)
    /\ pc' = [pc EXCEPT ![p] = "search"]
    /\ pi' = [pi EXCEPT ![p] = 1]
    /\ si' = [si EXCEPT ![p] = 1]
    /\ project' = [project EXCEPT ![p] = projects_and_repos[1].project]
    /\ repos' = [repos EXCEPT ![p] = projects_and_repos[1].repos]
    /\ UNCHANGED <<ri, results, cfgVars, remoteVars, flowVars, outVars, obsVars>>

\* A plausible slip: the error is printed and the loop goes on with the next rule.
SearchErrorSkipped(p) ==
    /\ NextRule(p, project[p], repos[p])
    /\ UNCHANGED <<ri, results>>

\* except AzureDevOpsServiceError: print(...); sys.exit(1)
SearchError(p) ==
    /\ pc' = [pc EXCEPT ![p] = "exit1"]
    /\ UNCHANGED <<pi, si, ri, project, repos, results>>

\* A plausible slip: break instead of continue, which leaves the rule loop.
ZeroResultsBreak(p) ==
    /\ IF pi[p] < Len(projects_and_repos)
       THEN /\ pc' = [pc EXCEPT ![p] = "search"]
            /\ si' = [si EXCEPT ![p] = 1]
            /\ pi' = [pi EXCEPT ![p] = @ + 1]
            /\ project' = [project EXCEPT ![p] = projects_and_repos[pi[p] + 1].project]
            /\ repos' = [repos EXCEPT ![p] = projects_and_repos[pi[p] + 1].repos]
       ELSE /\ pc' = [pc EXCEPT ![p] = "summary"]
            /\ UNCHANGED <<si, pi, project, repos>>
    /\ UNCHANGED <<ri, results>>

\* if response.count == 0: the labels, the message, continue
ZeroResults(p) ==
    /\ NextRule(p, LabelProject(project[p]), LabelRepos(repos[p]))
    /\ UNCHANGED <<ri, results>>

\* One iteration of the rule loop up to its matches: search_code and the
\* zero-result branch.
SearchCode(p) ==
    /\ pc[p] = "search"
    /\ LET text == strings_to_replace[si[p]].old
           filters == SearchFilters(project[p], repos[p])
           response == FetchCodeSearchResults(text, filters)
       IN /\ calls' = Called(p, "search")
          /\ \E ok \in BOOLEAN :
             /\ searchLog' = [searchLog EXCEPT ![p] =
                    Append(@, [pair |-> pi[p], rule |-> si[p], text |-> text,
                               filters |-> filters, failed |-> ~ok,
                               count |-> IF ok THEN Len(response) ELSE 0])]
             /\ IF ~ok THEN SearchError(p)
                ELSE IF Len(response) = 0
                THEN ZeroResults(p)
                ELSE /\ pc' = [pc EXCEPT ![p] = "match"]
                     /\ ri' = [ri EXCEPT ![p] = 1]
                     /\ results' = [results EXCEPT ![p] = response]
                     /\ UNCHANGED <<pi, si, project, repos>>
    /\ UNCHANGED <<cfgVars, remoteVars, flowVars, outVars, entry, invLog, lastPush,
                   pushResult, refLog>>

\* A plausible slip: the dry_run test is missing.
MutationsEnabledAlways == TRUE
\* if not dry_run:
MutationsEnabled == ~dry_run

\* A match in dry-run mode: it is printed and nothing else happens.
ReportMatch(p) ==
    /\ pc[p] = "match"
    /\ ~MutationsEnabled
    /\ NextResult(p)
    /\ UNCHANGED <<cfgVars, remoteVars, flowVars, outVars, obsVars>>

\* ------------------------------------------------- replace_string_in_file
Cur(p) == results[p][ri[p]]
CurRule(p) == strings_to_replace[si[p]]

\* quote(f"https://dev.azure.com/{organization_name}/{project}/_git/{repo_name}/pullrequest/{id}")
PrUrl(proj, repo_name, id) == [project |-> proj, repo |-> repo_name, id |-> id]

\* The invocation of run p returns url to the driver loop, which appends it to
\* pr_summary and goes on with the next result.  The log keeps what the
\* invocation read and did and the work branch and pull requests it leaves.
Return(p, url, found, pushed, created, workAfter, prsAfter) ==
    /\ pr_summary' = [pr_summary EXCEPT ![p] = Append(@, url)]
    /\ invLog' = Append(invLog,
          [run |-> p, repo |-> Cur(p).repo, path |-> Cur(p).path, rule |-> si[p],
           read |-> item[p], found |-> found, pushed |-> pushed,
           created |-> created, url |-> url,
           branchAfter |-> workAfter.exists,
           contentAfter |-> workAfter.content[Cur(p).path],
           prsAfter |-> prsAfter])
    /\ NextResult(p)

\* A plausible slip: the tip of the source branch is returned for an existing branch.
ExistingBranchCommitFromSource(r) == SourceTip
\* last_commit = branch.commit.commit_id, for the branch named new_branch
ExistingBranchCommit(r) == work[r].tip

\* create_or_get_branch, up to the test of branch_exists: get_branches and the
\* loop over the branches.  Begins the workflow for the current match.
GetBranches(p) ==
    /\ pc[p] = "match"
    /\ MutationsEnabled
    /\ LET r == Cur(p).repo
       IN /\ branch_exists' = [branch_exists EXCEPT ![p] = work[r].exists]
          /\ IF work[r].exists
             THEN /\ last_commit' = [last_commit EXCEPT ![p] = ExistingBranchCommit(r)]
                  /\ pc' = [pc EXCEPT ![p] = "get_item"]
             ELSE /\ last_commit' = last_commit
                  /\ pc' = [pc EXCEPT ![p] = "get_branch"]
    /\ entry' = [entry EXCEPT ![p] = calls[p]]
    /\ pushResult' = [pushResult EXCEPT ![p] = "none"]
    /\ calls' = Called(p, "get_branches")
    /\ UNCHANGED <<pi, si, ri, project, repos, results, cfgVars, remoteVars,
                   item, existing_pr, pr_url, new_content, outVars,
                   searchLog, invLog, lastPush, refLog>>

\* last_commit = git_client.get_branch(name=source_branch).commit.commit_id
GetBranch(p) ==
    /\ pc[p] = "get_branch"
    /\ last_commit' = [last_commit EXCEPT ![p] = SourceTip]
    /\ pc' = [pc EXCEPT ![p] = "update_refs"]
    /\ calls' = Called(p, "get_branch")
    /\ UNCHANGED <<pi, si, ri, project, repos, results, cfgVars, remoteVars,
                   branch_exists, item, existing_pr, pr_url, new_content, outVars,
                   entry, searchLog, invLog, lastPush, pushResult, refLog>>

\* A plausible slip: the commit is given as the old object id as well.
CreateBranchRefFromCommit(p) ==
    [old_object_id |-> last_commit[p], new_object_id |-> last_commit[p]]
\* create_branch = GitRefUpdate(old_object_id="0" * 40, new_object_id=last_commit)
CreateBranchRef(p) ==
    [old_object_id |-> ZeroObjectId, new_object_id |-> last_commit[p]]

\* git_client.update_refs(ref_updates=[create_branch]): the service creates the
\* ref when it has none of that name and the old object id is all zeros; a ref
\* update that fails is reported in the result, which the script does not read.
UpdateRefs(p) ==
    /\ pc[p] = "update_refs"
    /\ LET r == Cur(p).repo
           ref == CreateBranchRef(p)
           success == ~work[r].exists /\ ref.old_object_id = ZeroObjectId
       IN /\ work' = IF success
                     THEN [work EXCEPT ![r] = [exists |-> TRUE, tip |-> ref.new_object_id,
                                               content |-> srcContent[r]]]
                     ELSE work
          /\ refLog' = Append(refLog,
                [run |-> p, repo |-> r, old_object_id |-> ref.old_object_id,
                 new_object_id |-> ref.new_object_id, source |-> SourceTip,
                 success |-> success])
    /\ pc' = [pc EXCEPT ![p] = "get_item"]
    /\ calls' = Called(p, "update_refs")
    /\ UNCHANGED <<pi, si, ri, project, repos, results, cfgVars,
                   srcContent, prs, nextCommit, nextPrId, flowVars, outVars,
                   entry, searchLog, invLog, lastPush, pushResult>>

\* A plausible slip: the file is read at the source branch.
ItemAtSourceBranch(r, f) == srcContent[r][f]
\* version_descriptor=GitVersionDescriptor(version_type="branch", version=new_branch)
ItemAtVersion(r, f) == work[r].content[f]

\* git_client.get_item(path, version_descriptor=branch new_branch)
GetItem(p) ==
    /\ pc[p] = "get_item"
    /\ LET r == Cur(p).repo
       IN IF work[r].exists
          THEN /\ item' = [item EXCEPT ![p] = ItemAtVersion(r, Cur(p).path)]
               /\ pc' = [pc EXCEPT ![p] = "get_prs"]
          ELSE /\ item' = item
               /\ pc' = [pc EXCEPT ![p] = "crashed"]
    /\ calls' = Called(p, "get_item")
    /\ UNCHANGED <<pi, si, ri, project, repos, results, cfgVars, remoteVars,
                   branch_exists, last_commit, existing_pr, pr_url, new_content,
                   outVars, entry, searchLog, invLog, lastPush, pushResult, refLog>>

\* A plausible slip: the invocation returns whenever the string is absent.
ReturnsEarlyWhenAbsent(content, old, existing) == ~Contains(content, old)
\* A plausible slip: the invocation returns as soon as a pull request exists.
ReturnsEarlyWithAnyPr(content, old, existing) == existing # {}
\* if old_string not in item.content: if existing_pr: return pr_url
ReturnsEarly(content, old, existing) == ~Contains(content, old) /\ existing # {}

\* get_pull_requests and the statements up to update_file_content: pr_url of
\* the first pull request found, the early return, new_content.
GetPullRequests(p) ==
    /\ pc[p] = "get_prs"
    /\ LET r == Cur(p).repo
           found == prs[r]
       IN /\ existing_pr' = [existing_pr EXCEPT ![p] = found]
          /\ \E url \in IF found = {} THEN {NoUrl}
                        ELSE {PrUrl(ProjectOf(r), r, id) : id \in found} :
                /\ pr_url' = [pr_url EXCEPT ![p] = url]
                /\ IF ReturnsEarly(item[p], CurRule(p).old, found)
                   THEN /\ Return(p, url, found, FALSE, FALSE, work[r], prs[r])
                        /\ new_content' = new_content
                   ELSE /\ new_content' = [new_content EXCEPT ![p] =
                               StrReplace(item[p], CurRule(p).old, CurRule(p).new)]
                        /\ pc' = [pc EXCEPT ![p] = "push"]
                        /\ UNCHANGED <<pi, si, ri, project, repos, results,
                                       pr_summary, invLog>>
    /\ calls' = Called(p, "get_pull_requests")
    /\ UNCHANGED <<cfgVars, remoteVars, branch_exists, last_commit, item, printed,
                   entry, searchLog, lastPush, pushResult, refLog>>

\* A plausible slip: the tip is looked up again for the push, whatever was read.
PushOldObjectIdOfCurrentTip(p) == work[Cur(p).repo].tip
\* A plausible slip: the commit of the source branch is sent as the old object id.
PushOldObjectIdOfSource(p) == SourceTip
\* GitRefUpdate(name=f"refs/heads/{new_branch}", old_object_id=last_commit)
PushOldObjectId(p) == last_commit[p]

\* A plausible slip: a pull request is created whether or not one was found.
NeedsPullRequestAlways(existing) == TRUE
\* if not existing_pr:
NeedsPullRequest(existing) == existing = {}

\* A plausible slip: the error of the push is caught and the invocation goes on.
PushRejectedIgnored(p) ==
    /\ pc' = [pc EXCEPT ![p] = "create_pr"]
    /\ UNCHANGED <<pi, si, ri, project, repos, results, pr_summary, invLog>>

\* create_push raises and nothing catches it: the script ends with a traceback.
PushRejected(p) ==
    /\ pc' = [pc EXCEPT ![p] = "crashed"]
    /\ UNCHANGED <<pi, si, ri, project, repos, results, pr_summary, invLog>>

\* update_file_content: create_push of one edit of the file.  The service
\* accepts the push when old_object_id is the tip of the branch and otherwise
\* rejects it, which raises in the script.
CreatePush(p) ==
    /\ pc[p] = "push"
    /\ LET r == Cur(p).repo
           f == Cur(p).path
           token == PushOldObjectId(p)
           accepted == work[r].exists /\ work[r].tip = token
       IN /\ lastPush' = [run |-> p, repo |-> r, path |-> f, old_object_id |-> token,
                          tip |-> work[r].tip, read |-> item[p],
                          content |-> new_content[p], old |-> CurRule(p).old,
                          new |-> CurRule(p).new, accepted |-> accepted,
                          base |-> work[r].content[f]]
          /\ pushResult' = [pushResult EXCEPT ![p] =
                               IF accepted THEN "accepted" ELSE "rejected"]
          /\ IF accepted
             THEN /\ work' = [work EXCEPT ![r].tip = nextCommit,
                                          ![r].content[f] = new_content[p]]
                  /\ nextCommit' = nextCommit + 1
                  /\ IF NeedsPullRequest(existing_pr[p])
                     THEN /\ pc' = [pc EXCEPT ![p] = "create_pr"]
                          /\ UNCHANGED <<pi, si, ri, project, repos, results,
                                         pr_summary, invLog>>
                     ELSE Return(p, pr_url[p], existing_pr[p], TRUE, FALSE,
                                 [work[r] EXCEPT !.tip = nextCommit,
                                                 !.content[f] = new_content[p]],
                                 prs[r])
             ELSE /\ PushRejected(p)
                  /\ UNCHANGED <<work, nextCommit>>
    /\ calls' = Called(p, "create_push")
    /\ UNCHANGED <<cfgVars, srcContent, prs, nextPrId, flowVars, printed,
                   entry, searchLog, refLog>>

\* git_client.create_pull_request(source = work branch, target = source branch).
\* The script does not decide what the service does with a request for
\* branches that already have an active pull request: it may create a second
\* one, or refuse, which raises in the script.
CreatePullRequest(p) ==
    /\ pc[p] = "create_pr"
    /\ LET r == Cur(p).repo
           url == PrUrl(ProjectOf(r), r, nextPrId)
       IN \E ok \in IF prs[r] = {} THEN {TRUE} ELSE BOOLEAN :
             IF ok
             THEN /\ prs' = [prs EXCEPT ![r] = @ \cup {nextPrId}]
                  /\ nextPrId' = nextPrId + 1
                  /\ pr_url' = [pr_url EXCEPT ![p] = url]
                  /\ Return(p, url, existing_pr[p], TRUE, TRUE, work[r],
                            prs[r] \cup {nextPrId})
             ELSE /\ pc' = [pc EXCEPT ![p] = "crashed"]
                  /\ UNCHANGED <<prs, nextPrId, pr_url, pi, si, ri, project, repos,
                                 results, pr_summary, invLog>>
    /\ calls' = Called(p, "create_pull_request")
    /\ UNCHANGED <<cfgVars, srcContent, work, nextCommit, branch_exists, last_commit,
                   item, existing_pr, new_content, printed, entry, searchLog, lastPush,
                   pushResult, refLog>>

\* ------------------------------------------------------------- the summary
Range(s) == {s[i] : i \in 1..Len(s)}

\* A plausible slip: the list is printed as it was appended to.
AsAppended(s) == {s}
\* list(set(pr_summary)): the elements once each, in an order the set decides
ListOfSet(s) == {q \in [1..Cardinality(Range(s)) -> Range(s)] : Range(q) = Range(s)}

\* The end of the script: the dry-run notice, or the summary of the pull requests.
PrintSummary(p) ==
    /\ pc[p] = "summary"
    /\ IF dry_run
       THEN UNCHANGED <<pr_summary, printed>>
       ELSE \E q \in ListOfSet(pr_summary[p]) :
               /\ pr_summary' = [pr_summary EXCEPT ![p] = q]
               /\ printed' = [printed EXCEPT ![p] = q]
    /\ pc' = [pc EXCEPT ![p] = "done"]
    /\ UNCHANGED <<pi, si, ri, project, repos, results, cfgVars, remoteVars,
                   flowVars, obsVars>>

\* ------------------------------------------------------- the specification
Next ==
    \E p \in Runs :
        \/ StartRun(p)
        \/ SearchCode(p)
        \/ ReportMatch(p)
        \/ GetBranches(p)
        \/ GetBranch(p)
        \/ UpdateRefs(p)
        \/ GetItem(p)
        \/ GetPullRequests(p)
        \/ CreatePush(p)
        \/ CreatePullRequest(p)
        \/ PrintSummary(p)

Spec == Init /\ [][Next]_vars

\* The steps of a run once it has started.  The script is one sequential
\* process whose every remote call returns: a started run keeps taking steps.
RunStep(p) ==
    \/ SearchCode(p)
    \/ ReportMatch(p)
    \/ GetBranches(p)
    \/ GetBranch(p)
    \/ UpdateRefs(p)
    \/ GetItem(p)
    \/ GetPullRequests(p)
    \/ CreatePush(p)
    \/ CreatePullRequest(p)
    \/ PrintSummary(p)

SpecLive == Init /\ [][Next]_vars /\ \A p \in Runs : WF_vars(RunStep(p))

\* Runs of the script that overlap: the first two runs may start at once, and
\* their remote calls interleave.  All of them work on repository R1.
ConcRuleLists ==
    { << Rule(<<"a">>, <<"b">>) >>,
      << Rule(<<"a">>, <<"a", "a">>) >> }

InitConc ==
    /\ dry_run \in BOOLEAN
    /\ strings_to_replace \in ConcRuleLists
    /\ projects_and_repos = << Pair("P1", SomeRepos(<<"R1">>)) >>
    /\ concurrent = TRUE
    /\ \E c \in {<<"a">>, <<"b", "a">>} :
          srcContent = [r \in RepoNames |->
                           [f \in FilesOf(r) |-> IF f = "F1" THEN c ELSE <<"a", "b">>]]
    /\ \E e \in EarlierStates :
          /\ work = [r \in RepoNames |->
                        IF r = "R1" /\ e # "absent"
                        THEN [exists |-> TRUE, tip |-> EarlierTip,
                              content |-> [srcContent[r] EXCEPT !["F1"] = <<"b">>]]
                        ELSE Absent(r)]
          /\ prs = [r \in RepoNames |->
                        IF r = "R1" /\ e = "edited_with_pr" THEN {1} ELSE {}]
    /\ nextCommit = EarlierTip + 1
    /\ nextPrId = 2
    /\ InitRuns

SpecConc == InitConc /\ [][Next]_vars

\* ---------------------------------------------------------------- claims
Last(s) == s[Len(s)]
RunLog(p) == SelectSeq(invLog, LAMBDA e : e.run = p)
RuleOf(e) == strings_to_replace[e.rule]

\* The replacement as the claims state it, by positions: an occurrence of old
\* is replaced when no replaced occurrence to its left overlaps it; a character
\* under a replaced occurrence is dropped; every other character is kept.
OccursAt(C, old, i) ==
    /\ i >= 1
    /\ i + Len(old) - 1 <= Len(C)
    /\ SubSeq(C, i, i + Len(old) - 1) = old

RECURSIVE ReplacedAt(_, _, _)
ReplacedAt(C, old, i) ==
    /\ OccursAt(C, old, i)
    /\ \A j \in (i - Len(old) + 1)..(i - 1) : ~ReplacedAt(C, old, j)

RECURSIVE ScanFrom(_, _, _, _)
ScanFrom(C, old, new, i) ==
    IF i > Len(C) THEN <<>>
    ELSE (IF ReplacedAt(C, old, i) THEN new
          ELSE IF \E j \in (i - Len(old) + 1)..(i - 1) : ReplacedAt(C, old, j) THEN <<>>
          ELSE <<C[i]>>)
         \o ScanFrom(C, old, new, i + 1)

Scanned(C, old, new) == ScanFrom(C, old, new, 1)

\* C1: idempotence.  Two successive invocations of replace_string_in_file on
\* the same (repository, file, rule) return the same pull-request URL and the
\* second issues no push and creates no pull request; and a run of the script
\* that follows a completed run issues no push.
C1_Idempotent ==
    /\ \A k \in 1..(Len(invLog) - 1) :
          LET a == invLog[k]
              b == invLog[k + 1]
          IN (a.repo = b.repo /\ a.path = b.path /\ a.rule = b.rule)
                => (b.url = a.url /\ ~b.pushed /\ ~b.created)
    /\ \A p \in Runs \ {1} :
          pc[p - 1] = "done" => calls[p]["create_push"] = 0

\* C2: no duplicate pull requests.  A pull request is created only when the
\* lookup of the same invocation found none, and no repository ever has more
\* than one active pull request from the work branch to the source branch.
C2_NoDuplicatePRs ==
    /\ \A r \in RepoNames : Cardinality(prs[r]) <= 1
    /\ \A p \in Runs :
          pc[p] = "create_pr" => existing_pr[p] = {} /\ prs[Cur(p).repo] = {}
    /\ \A k \in 1..Len(invLog) :
          invLog[k].created => Cardinality(invLog[k].prsAfter) = 1

\* C2's case: a repository hit by several matches, the first of which created
\* the pull request the later ones found.
C2_Witness ==
    \E r \in RepoNames :
        /\ Cardinality(prs[r]) = 1
        /\ \E j, k \in 1..Len(invLog) :
              /\ j < k
              /\ invLog[j].repo = r /\ invLog[j].created
              /\ invLog[k].repo = r /\ invLog[k].pushed /\ ~invLog[k].created

\* C3: scope preservation.  Every search of a run carries the old string of
\* its rule and the filters of the configured (project, repos) pair it belongs
\* to, and no (pair, rule) is searched twice.
C3_ScopePreserved ==
    \A p \in Runs :
        \A k \in 1..Len(searchLog[p]) :
            LET e == searchLog[p][k]
                scope == projects_and_repos[e.pair]
            IN /\ e.text = strings_to_replace[e.rule].old
               /\ e.filters = SearchFilters(scope.project, scope.repos)
               /\ \A j \in 1..Len(searchLog[p]) :
                     j # k => <<searchLog[p][j].pair, searchLog[p][j].rule>>
                                 # <<e.pair, e.rule>>

\* C4: dry-run purity.  With dry_run set no step changes the branches, the
\* file contents or the pull requests, and no run has issued any call other
\* than a search.
C4_DryRunPure ==
    [][dry_run =>
          /\ remoteVars' = remoteVars
          /\ \A p \in Runs : \A k \in MutatingKinds : calls'[p][k] = 0]_vars

\* C4's case: a dry run that found matches has ended.
C4_Witness ==
    /\ dry_run
    /\ \E p \in Runs :
          /\ pc[p] = "done"
          /\ Len(results[p]) > 1
          /\ calls[p]["search"] > 1

C6_BranchReuse ==
    \A p \in Runs :
        (pc[p] = "get_item" /\ branch_exists[p]) =>
            /\ last_commit[p] = work[Cur(p).repo].tip
            /\ calls[p]["update_refs"] = entry[p]["update_refs"]
            /\ calls[p]["get_branch"] = entry[p]["get_branch"]
            /\ calls[p]["get_branches"] = entry[p]["get_branches"] + 1

\* C6's case: the work branch is found and its tip, moved by a push of this
\* run, is not the tip of the source branch.
C6_Witness ==
    \E p \in Runs :
        /\ pc[p] = "get_item" /\ branch_exists[p]
        /\ calls[p]["create_push"] > 0
        /\ work[Cur(p).repo].tip \notin {SourceTip, EarlierTip}

\* C7: a failed search is fatal.  The step of the failing search ends the run
\* with exit status 1 and leaves branches, commits and pull requests as they
\* are; a run that has exited issues no further call and adds no URL.
C7_SearchFailureFatal ==
    [][\A p \in Runs :
          /\ (Len(searchLog'[p]) > Len(searchLog[p]) /\ Last(searchLog'[p]).failed)
                => (pc'[p] = "exit1" /\ remoteVars' = remoteVars)
          /\ pc[p] = "exit1"
                => (pc'[p] = "exit1" /\ calls'[p] = calls[p]
                    /\ pr_summary'[p] = pr_summary[p])]_vars

\* C7's case: a search failed after the run had created a branch, pushed and
\* opened a pull request, all of which are still there.
C7_Witness ==
    \E p \in Runs :
        /\ pc[p] = "exit1"
        /\ calls[p]["update_refs"] > 0
        /\ calls[p]["create_pull_request"] > 0
        /\ \E r \in RepoNames :
              work[r].exists /\ work[r].tip # SourceTip /\ prs[r] # {}

\* C8: replacement correctness.  The content of every push is the content read
\* with each non-overlapping occurrence of old, from the left, replaced by new
\* and every other character kept in order; it is the content read when old
\* does not occur in it.
C8_ReplacementCorrect ==
    lastPush.run # 0 =>
        /\ lastPush.content = Scanned(lastPush.read, lastPush.old, lastPush.new)
        /\ ~Contains(lastPush.read, lastPush.old) => lastPush.content = lastPush.read

\* C8's case: a push of a content in which occurrences of old overlap.
C8_Witness ==
    /\ lastPush.run # 0
    /\ lastPush.read = <<"a", "a", "a">>
    /\ lastPush.old = <<"a", "a">>
    /\ lastPush.content = lastPush.new \o <<"a">>

C10_FreshToken ==
    /\ lastPush.run # 0 =>
          (lastPush.old_object_id = lastPush.tip /\ lastPush.accepted)
    /\ \A p \in Runs : pc[p] # "crashed"

\* C10's case: a push onto a tip that an earlier push of the same run made.
C10_Witness ==
    /\ lastPush.run # 0
    /\ lastPush.accepted
    /\ lastPush.tip \notin {SourceTip, EarlierTip}
    /\ calls[lastPush.run]["create_push"] > 1

\* C11: edits accumulate.  In sequential runs every invocation reads the file
\* as the invocation before it on that file left it at the tip of the work
\* branch, so after two rules on one file the tip holds the content the first
\* invocation read with the first rule applied and then the second.
C11_EditsAccumulate ==
    \A j, k \in 1..Len(invLog) :
        LET a == invLog[j]
            b == invLog[k]
        IN (/\ j < k
            /\ a.repo = b.repo /\ a.path = b.path
            /\ \A m \in (j + 1)..(k - 1) :
                  ~(invLog[m].repo = a.repo /\ invLog[m].path = a.path))
           => /\ b.read = a.contentAfter
              /\ b.contentAfter =
                    Scanned(Scanned(a.read, RuleOf(a).old, RuleOf(a).new),
                            RuleOf(b).old, RuleOf(b).new)

\* C11's case: two rules of one run edited the same file, and the result is
\* not what the second rule makes of the source-branch version.
C11_Witness ==
    \E j, k \in 1..Len(invLog) :
        LET a == invLog[j]
            b == invLog[k]
        IN /\ j < k
           /\ a.run = b.run /\ a.repo = b.repo /\ a.path = b.path
           /\ a.rule # b.rule
           /\ a.pushed /\ b.pushed
           /\ a.contentAfter # a.read
           /\ b.contentAfter # b.read
           /\ b.contentAfter # Scanned(srcContent[b.repo][b.path],
                                       RuleOf(b).old, RuleOf(b).new)

\* C12: fall-through.  An invocation that read a content without old and found
\* no active pull request pushes that very content and then creates a pull
\* request; an invocation returns without a push exactly when old was absent
\* and an active pull request was found.
C12_FallThrough ==
    /\ \A k \in 1..Len(invLog) :
          LET e == invLog[k]
              absent == ~Contains(e.read, RuleOf(e).old)
          IN /\ (absent /\ e.found = {}) =>
                    (e.pushed /\ e.created /\ e.contentAfter = e.read)
             /\ ~e.pushed <=> (absent /\ e.found # {})
    /\ \A p \in Runs :
          (pc[p] \in {"push", "create_pr"} /\ ~Contains(item[p], CurRule(p).old)) =>
              /\ existing_pr[p] = {}
              /\ new_content[p] = item[p]
              /\ calls[p]["create_push"] - entry[p]["create_push"]
                    = (IF pc[p] = "push" THEN 0 ELSE 1)

\* C12's case: the file on the work branch had lost the string, no pull
\* request existed, and the invocation pushed and created one.
C12_Witness ==
    \E k \in 1..Len(invLog) :
        /\ ~Contains(invLog[k].read, RuleOf(invLog[k]).old)
        /\ invLog[k].found = {}
        /\ invLog[k].pushed /\ invLog[k].created

\* C13: a rejected push is fatal and unretried.  The step of a rejected push
\* ends the run, changing neither branch nor pull requests nor summary; the
\* run then issues no further call; and a pull request is created only by an
\* invocation whose push was accepted.
C13_RejectedPushFatal ==
    [][\A p \in Runs :
          /\ (pushResult'[p] = "rejected" /\ pushResult[p] # "rejected")
                => (/\ pc'[p] = "crashed"
                    /\ work' = work /\ prs' = prs
                    /\ pr_summary'[p] = pr_summary[p])
          /\ pushResult[p] = "rejected"
                => (/\ pc'[p] = "crashed"
                    /\ pushResult'[p] = "rejected"
                    /\ calls'[p] = calls[p]
                    /\ pr_summary'[p] = pr_summary[p]
                    /\ printed'[p] = printed[p])
          /\ calls'[p]["create_pull_request"] > calls[p]["create_pull_request"]
                => pushResult[p] = "accepted"]_vars

\* C13's case: of two overlapping runs one had its push accepted and the
\* other, holding the tip from before, had its push rejected.
C13_Witness ==
    \E p, q \in Runs :
        /\ p # q
        /\ pushResult[p] = "rejected" /\ pc[p] = "crashed"
        /\ pushResult[q] = "accepted"
        /\ lastPush.run = p /\ ~lastPush.accepted
        /\ lastPush.old_object_id # lastPush.tip

\* C14: no lost update.  With overlapping runs every push is accepted exactly
\* when its old_object_id is the tip, and the content of an accepted push is
\* the replacement made in the content that was at that tip.
C14_NoLostUpdate ==
    lastPush.run # 0 =>
        /\ lastPush.accepted <=> lastPush.old_object_id = lastPush.tip
        /\ lastPush.accepted =>
              /\ lastPush.read = lastPush.base
              /\ lastPush.content = Scanned(lastPush.base, lastPush.old, lastPush.new)

\* C14's case: a run's first push is accepted on a tip that the other run,
\* still running, had pushed.
C14_Witness ==
    \E q \in Runs :
        /\ lastPush.run \notin {0, q}
        /\ lastPush.accepted
        /\ lastPush.tip \notin {SourceTip, EarlierTip}
        /\ calls[lastPush.run]["create_push"] = 1
        /\ calls[q]["create_push"] > 0
        /\ pc[q] \notin Ended \cup {"idle"}

\* C15: the central invariant under overlapping runs.  No repository ever has
\* more than one active pull request from the work branch to the source
\* branch.
C15_OnePrConcurrent ==
    \A r \in RepoNames : Cardinality(prs[r]) <= 1

\* C16: branch creation.  Every ref update creates the work branch from the
\* all-zero object id to the tip of the source branch and succeeds;
\* create_or_get_branch then returns that commit.  In sequential runs a
\* repository's work branch is created at most once, before any invocation
\* for that repository has returned, and every later invocation finds it.
C16_BranchCreation ==
    /\ \A k \in 1..Len(refLog) :
          /\ refLog[k].old_object_id = ZeroObjectId
          /\ refLog[k].new_object_id = refLog[k].source
          /\ refLog[k].success
          /\ \A j \in 1..Len(refLog) : j # k => refLog[j].repo # refLog[k].repo
    /\ \A p \in Runs :
          /\ (pc[p] = "get_item" /\ ~branch_exists[p]) =>
                /\ work[Cur(p).repo].exists
                /\ work[Cur(p).repo].tip = SourceTip
                /\ last_commit[p] = SourceTip
                /\ calls[p]["get_branch"] = entry[p]["get_branch"] + 1
                /\ calls[p]["update_refs"] = entry[p]["update_refs"] + 1
          /\ pc[p] \in {"get_branch", "update_refs"} =>
                /\ \A k \in 1..Len(invLog) : invLog[k].repo # Cur(p).repo
                /\ \A k \in 1..Len(refLog) : refLog[k].repo # Cur(p).repo

\* C16's case: a branch this session created is found by a later invocation
\* for the same repository.
C16_Witness ==
    \E p \in Runs :
        /\ pc[p] = "get_item" /\ branch_exists[p]
        /\ \E k \in 1..Len(refLog) :
              /\ refLog[k].repo = Cur(p).repo
              /\ refLog[k].old_object_id = ZeroObjectId
              /\ refLog[k].new_object_id = SourceTip
        /\ \E k \in 1..Len(invLog) : invLog[k].repo = Cur(p).repo

\* The (pair, rule) of the k-th search of a run, in configuration order.
Position(k) ==
    << ((k - 1) \div Len(strings_to_replace)) + 1,
       ((k - 1) % Len(strings_to_replace)) + 1 >>
NumPositions == Len(projects_and_repos) * Len(strings_to_replace)
MutatingCalls(c) == [k \in MutatingKinds |-> c[k]]

\* C17: zero matches are not an error and the run completes.  A search with
\* zero matches leads to the next search or the summary with no other call;
\* the searches of a run follow the configuration order; a run ends on a
\* failed search or, having searched every (pair, rule), normally; and every
\* started run ends.
C17_Completes ==
    /\ [](\A p \in Runs :
            /\ \A k \in 1..Len(searchLog[p]) :
                  /\ <<searchLog[p][k].pair, searchLog[p][k].rule>> = Position(k)
                  /\ searchLog[p][k].failed => k = Len(searchLog[p])
            /\ pc[p] # "crashed"
            /\ pc[p] = "exit1" => Last(searchLog[p]).failed
            /\ pc[p] = "done" =>
                  /\ Len(searchLog[p]) = NumPositions
                  /\ ~Last(searchLog[p]).failed)
    /\ [][\A p \in Runs :
            (/\ Len(searchLog'[p]) > Len(searchLog[p])
             /\ ~Last(searchLog'[p]).failed
             /\ Last(searchLog'[p]).count = 0)
            => /\ pc'[p] = (IF Len(searchLog'[p]) < NumPositions
                            THEN "search" ELSE "summary")
               /\ MutatingCalls(calls'[p]) = MutatingCalls(calls[p])
               /\ remoteVars' = remoteVars]_vars
    /\ \A p \in Runs : (pc[p] # "idle") ~> (pc[p] \in {"done", "exit1"})

\* C17's case: a run whose first search found nothing went on and completed.
C17_Witness ==
    \E p \in Runs :
        /\ pc[p] = "done"
        /\ Len(searchLog[p]) > 1
        /\ searchLog[p][1].count = 0
        /\ \E k \in 2..Len(searchLog[p]) : searchLog[p][k].count > 0

====
